---- MODULE Spec2Model ----
(***************************************************************************)
(* Hybrid retrieval engine of pipeline/analyzers/rag_engine.py: the lazy   *)
(* BM25 index, the dense search, score normalisation and fusion, top-k     *)
(* assembly, optional reranking, the query cache and the context packer.   *)
(*                                                                         *)
(* Scores are exact rationals <<numerator, denominator>> in lowest terms   *)
(* (the code computes them in binary floating point).  A text is a         *)
(* sequence of pieces: words and the newline piece "\n".                   *)
(***************************************************************************)
EXTENDS Integers, Sequences, FiniteSets, TLC

VARIABLES
    collection,       \* the dense store's chunks (self.collection)
    distances,        \* the store's distance of each chunk to the query embedding
    weights,          \* BM25Okapi's per-term weight (idf and saturation)
    use_reranker,     \* self.use_reranker
    rerank_model,     \* self.reranker's score of a chunk (by position in the store)
    bm25,             \* self.bm25: [built, corpus]
    bm25_chunks,      \* self.bm25_chunks
    query_cache,      \* self.query_cache: cache key -> result list
    history,          \* the list each (query, top_k, alpha, filter) tuple first returned
    last,             \* the call that ran last, with what it returned
    vector_results,   \* hybrid_search's local of the last fresh computation
    bm25_results,     \* hybrid_search's local of the last fresh computation
    combined_results, \* hybrid_search's local of the last fresh computation
    failing,          \* the dependency that is failing: "none", "embedder", "store", "reranker"
    reads,            \* how many times _get_all_chunks has read the corpus
    threads,          \* the threads inside _bm25_search on the shared engine
    arrays            \* an array handed to normalize_scores, and what came back

vars == <<collection, distances, weights, use_reranker, rerank_model, bm25,
          bm25_chunks, query_cache, history, last, vector_results, bm25_results,
          combined_results, failing, reads, threads, arrays>>

----------------------------------------------------------------------------
(* Bounds of the model *)

MaxDist == 2          \* store distances are 0..MaxDist
MaxWeight == 2        \* BM25 term weights are 1..MaxWeight
MaxList == 2          \* a drawn result list has at most MaxList entries
MaxCache == 2         \* fresh computations per engine
NewlineRunMax == 2    \* longest run of newlines the tokenizer makes one token
MaxReads == 2         \* corpus reads per engine
MaxScore == 2         \* raw scores are 0..MaxScore in steps of one half
MaxScores == 3        \* an array of scores has at most MaxScores entries
MaxPasses == 2        \* normalisations applied to one array in a row
NumThreads == 3       \* threads that share one engine

----------------------------------------------------------------------------
(* Exact rational arithmetic *)

Abs(n) == IF n < 0 THEN -n ELSE n

RECURSIVE GCD(_, _)
GCD(a, b) == IF b = 0 THEN a ELSE GCD(b, a % b)

Rat(n, d) == LET g == GCD(Abs(n), d) IN <<n \div g, d \div g>>

Zero == <<0, 1>>
One == <<1, 1>>

RAdd(a, b) == Rat(a[1] * b[2] + b[1] * a[2], a[2] * b[2])
RSub(a, b) == Rat(a[1] * b[2] - b[1] * a[2], a[2] * b[2])
RMul(a, b) == Rat(a[1] * b[1], a[2] * b[2])
RDiv(a, b) == Rat(a[1] * b[2], a[2] * b[1])
RLt(a, b) == a[1] * b[2] < b[1] * a[2]
RLe(a, b) == a[1] * b[2] <= b[1] * a[2]

RECURSIVE RMin(_)
RMin(s) == IF Len(s) = 1 THEN s[1]
           ELSE LET m == RMin(Tail(s)) IN IF RLe(s[1], m) THEN s[1] ELSE m

RECURSIVE RMax(_)
RMax(s) == IF Len(s) = 1 THEN s[1]
           ELSE LET m == RMax(Tail(s)) IN IF RLe(m, s[1]) THEN s[1] ELSE m

----------------------------------------------------------------------------
(* Python dictionaries and lists *)

Get(d, k, default) == IF k \in DOMAIN d THEN d[k] ELSE default

Put(d, k, v) == [x \in (DOMAIN d) \cup {k} |-> IF x = k THEN v ELSE d[x]]

Take(s, n) == SubSeq(s, 1, IF n < Len(s) THEN n ELSE Len(s))

Ids(s) == {s[i]["id"] : i \in 1..Len(s)}

IndexOf(s, id) == CHOOSE i \in 1..Len(s) : s[i]["id"] = id

\* sorted(results, key=..., reverse=True): stable, equal keys keep their order
RECURSIVE InsertDesc(_, _, _)
InsertDesc(sorted, r, key) ==
    IF Len(sorted) = 0 THEN <<r>>
    ELSE IF RLt(Get(sorted[1], key, Zero), Get(r, key, Zero))
         THEN <<r>> \o sorted
         ELSE <<sorted[1]>> \o InsertDesc(Tail(sorted), r, key)

RECURSIVE SortedDesc(_, _)
SortedDesc(results, key) ==
    IF Len(results) = 0 THEN <<>>
    ELSE InsertDesc(SortedDesc(SubSeq(results, 1, Len(results) - 1), key),
                    results[Len(results)], key)

----------------------------------------------------------------------------
(* Helper functions *)

\* an array of ties normalized to zeros
normalize_ties_to_zero(array) ==
    IF Len(array) = 0 THEN array
    ELSE LET min_score == RMin(array)
             max_score == RMax(array)
         IN IF max_score = min_score
            THEN [i \in 1..Len(array) |-> Zero]
            ELSE [i \in 1..Len(array) |->
                    RDiv(RSub(array[i], min_score), RSub(max_score, min_score))]

\* an array scaled by its maximum instead of its range
normalize_by_max(array) ==
    IF Len(array) = 0 THEN array
    ELSE LET min_score == RMin(array)
             max_score == RMax(array)
         IN IF max_score = min_score
            THEN [i \in 1..Len(array) |-> One]
            ELSE [i \in 1..Len(array) |-> RDiv(RSub(array[i], min_score), max_score)]

normalize_scores(array) ==
    IF Len(array) = 0 THEN array
    ELSE LET min_score == RMin(array)
             max_score == RMax(array)
         IN IF max_score = min_score
            THEN [i \in 1..Len(array) |-> One]
            ELSE [i \in 1..Len(array) |->
                    RDiv(RSub(array[i], min_score), RSub(max_score, min_score))]

----------------------------------------------------------------------------
(* Score fusion and result assembly *)

\* lines 355-365: each list carries its own normalised scores
WithNorm(results, raw, norm) ==
    LET scores == normalize_scores([i \in 1..Len(results) |-> Get(results[i], raw, Zero)])
    IN [i \in 1..Len(results) |-> Put(results[i], norm, scores[i])]

\* combined[chunk_id] = value: a new key goes last, an old key keeps its place
DictSet(combined, value) ==
    IF value["id"] \in Ids(combined)
    THEN [combined EXCEPT ![IndexOf(combined, value["id"])] = value]
    ELSE Append(combined, value)

\* the vector weight applied to its complement
NewVectorComplement(result, alpha) ==
    Put(result, "final_score",
        RMul(RSub(One, alpha), Get(result, "vector_score_norm", Zero)))

\* lines 373-376
NewVector(result, alpha) ==
    Put(result, "final_score", RMul(alpha, Get(result, "vector_score_norm", Zero)))

\* lines 371-376
RECURSIVE AddVector(_, _, _)
AddVector(combined, results, alpha) ==
    IF Len(results) = 0 THEN combined
    ELSE AddVector(DictSet(combined, NewVector(results[1], alpha)), Tail(results), alpha)

\* the lexical share assigned over the vector share instead of added to it
UpdateBM25Overwrite(entry, result, alpha) ==
    Put(Put(Put(entry,
        "final_score", RMul(RSub(One, alpha), Get(result, "bm25_score_norm", Zero))),
        "bm25_score", Get(result, "bm25_score", Zero)),
        "bm25_score_norm", Get(result, "bm25_score_norm", Zero))

\* lines 381-385
UpdateBM25(entry, result, alpha) ==
    Put(Put(Put(entry,
        "final_score", RAdd(entry["final_score"],
                            RMul(RSub(One, alpha), Get(result, "bm25_score_norm", Zero)))),
        "bm25_score", Get(result, "bm25_score", Zero)),
        "bm25_score_norm", Get(result, "bm25_score_norm", Zero))

\* a lexical-only candidate weighted by alpha
NewBM25Swapped(result, alpha) ==
    Put(Put(Put(result,
        "vector_score", Zero),
        "vector_score_norm", Zero),
        "final_score", RMul(alpha, Get(result, "bm25_score_norm", Zero)))

\* lines 387-392
NewBM25(result, alpha) ==
    Put(Put(Put(result,
        "vector_score", Zero),
        "vector_score_norm", Zero),
        "final_score", RMul(RSub(One, alpha), Get(result, "bm25_score_norm", Zero)))

\* lines 379-392
RECURSIVE AddBM25(_, _, _)
AddBM25(combined, results, alpha) ==
    IF Len(results) = 0 THEN combined
    ELSE LET result == results[1]
             next == IF result["id"] \in Ids(combined)
                     THEN LET i == IndexOf(combined, result["id"])
                          IN [combined EXCEPT ![i] = UpdateBM25(combined[i], result, alpha)]
                     ELSE Append(combined, NewBM25(result, alpha))
         IN AddBM25(next, Tail(results), alpha)

fuse_results(vector, bm25res, alpha) ==
    AddBM25(AddVector(<<>>, WithNorm(vector, "vector_score", "vector_score_norm"), alpha),
            WithNorm(bm25res, "bm25_score", "bm25_score_norm"), alpha)

\* a sort that lets the later of two equal-score candidates come first
deduplicate_results_unstable(results, top_k) ==
    Take(SortedDesc([i \in 1..Len(results) |-> results[Len(results) + 1 - i]],
                    "final_score"), top_k)

\* _deduplicate_results, lines 396-402
deduplicate_results(results, top_k) ==
    Take(SortedDesc(results, "final_score"), top_k)

----------------------------------------------------------------------------
(* Strings, parameters and corpora *)

None == <<>>
Some(s) == <<s>>

\* a document the store holds as None: a chunk with no text
NoText == <<"<None>">>

\* Python truthiness of Optional[str]: None and "" are false
Truthy(bill_number) == bill_number # None /\ bill_number[1] # ""

\* str.lower() of a word
Lower(w) == CASE w = "Healthcare" -> "healthcare"
              [] w = "Secretary" -> "secretary"
              [] w = "This" -> "this"
              [] w = "The" -> "the"
              [] w = "Appropriations" -> "appropriations"
              [] OTHER -> w

IsNewline(p) == p = "\n"

\* text.lower().split(): the words of a text, lowercased
RECURSIVE LowerSplit(_)
LowerSplit(text) ==
    IF Len(text) = 0 THEN <<>>
    ELSE IF IsNewline(text[1]) THEN LowerSplit(Tail(text))
         ELSE <<Lower(text[1])>> \o LowerSplit(Tail(text))

\* the string a sequence of words spells
RECURSIVE Str(_)
Str(words) == IF Len(words) = 0 THEN ""
              ELSE IF Len(words) = 1 THEN words[1]
                   ELSE words[1] \o " " \o Str(Tail(words))

RECURSIVE Newlines(_)
Newlines(n) == IF n <= 0 THEN <<>> ELSE <<"\n">> \o Newlines(n - 1)

Half == <<1, 2>>

\* f"{alpha}" of a float
FormatFloat(alpha) == CASE alpha = Zero -> "0.0"
                        [] alpha = <<1, 4>> -> "0.25"
                        [] alpha = Half -> "0.5"
                        [] alpha = <<3, 4>> -> "0.75"
                        [] alpha = One -> "1.0"
                        [] alpha = <<3, 2>> -> "1.5"

\* f"{bill_number}" of an Optional[str]
FormatOptional(bill_number) == IF bill_number = None THEN "None" ELSE bill_number[1]

HealthcareFunding == <<"healthcare", "funding">>

Queries == {HealthcareFunding, <<"healthcare", "funding:1:0.5">>}
TopKs == {1, 2}
Alphas == {Half, One}
Bills == {None, Some("H.R. 1"), Some("2:0.5:None")}

Vocabulary == UNION {{q[i] : i \in 1..Len(q)} : q \in Queries}

\* the corpus of the scenario: three chunks of one bill
ScenarioCorpus == <<
    [id |-> "chunk_0", text |-> <<"This", "bill", "provides", "healthcare", "funding", "for", "rural",
                 "areas">>,
     metadata |-> [section |-> "1", bill_number |-> "H.R. 1"]],
    [id |-> "chunk_1", text |-> <<"The", "Secretary", "shall", "allocate", "education", "funds", "to",
                 "schools">>,
     metadata |-> [section |-> "2", bill_number |-> "H.R. 1"]],
    [id |-> "chunk_2", text |-> <<"Appropriations", "of", "$50", "million", "for", "healthcare",
                 "programs">>,
     metadata |-> [section |-> "3", bill_number |-> "H.R. 1"]] >>

\* a corpus of two bills; chunk_0 ends in blank lines, chunk_2 has no section label
TwoBillCorpus == <<
    [id |-> "chunk_0", text |-> <<"healthcare", "funding">> \o Newlines(NewlineRunMax - 1),
     metadata |-> [section |-> "1", section_title |-> "Rural health",
                   bill_number |-> "H.R. 1", start_char |-> 0]],
    [id |-> "chunk_1", text |-> <<"education">>,
     metadata |-> [section |-> "2", bill_number |-> "H.R. 1", start_char |-> 100]],
    [id |-> "chunk_2", text |-> <<"Healthcare", "programs">>,
     metadata |-> [bill_number |-> "H.R. 1", start_char |-> 200]],
    [id |-> "chunk_3", text |-> <<"healthcare", "grants">>,
     metadata |-> [section |-> "1", bill_number |-> "H.R. 2", start_char |-> 0]] >>

----------------------------------------------------------------------------
(* Lexical index *)

tokenize_query(query) == LowerSplit(query)

\* an index built over whatever chunks there are, none included
setup_bm25_index_unguarded(chunks) ==
    [raised |-> "",
     bm25 |-> [built |-> TRUE,
               corpus |-> [i \in 1..Len(chunks) |-> LowerSplit(chunks[i]["text"])]],
     chunks |-> chunks]

\* setup_bm25_index: the tokenised corpus stands for the BM25Okapi object
setup_bm25_index(chunks) ==
    IF Len(chunks) = 0
    THEN [raised |-> "ValueError", bm25 |-> [built |-> FALSE, corpus |-> <<>>],
          chunks |-> None]
    ELSE IF \E i \in 1..Len(chunks) : chunks[i]["text"] = NoText
    THEN [raised |-> "AttributeError", bm25 |-> [built |-> FALSE, corpus |-> <<>>],
          chunks |-> None]
    ELSE [raised |-> "",
          bm25 |-> [built |-> TRUE,
                    corpus |-> [i \in 1..Len(chunks) |-> LowerSplit(chunks[i]["text"])]],
          chunks |-> chunks]

get_all_chunks == [i \in 1..Len(collection) |->
                     [id |-> collection[i]["id"], text |-> collection[i]["text"],
                      metadata |-> collection[i]["metadata"]]]

\* an index built anew on every lexical query
ensure_bm25_index_always ==
    LET built == setup_bm25_index(get_all_chunks)
    IN IF built.raised # ""
       THEN [raised |-> built.raised, bm25 |-> bm25, chunks |-> bm25_chunks,
             reads |-> reads + 1]
       ELSE [raised |-> "", bm25 |-> built.bm25, chunks |-> built.chunks,
             reads |-> reads + 1]

\* a guard that, on a built index, fetches the chunk list again, newest first
ensure_bm25_index_refetching ==
    IF ~bm25.built
    THEN LET built == setup_bm25_index(get_all_chunks)
         IN IF built.raised # ""
            THEN [raised |-> built.raised, bm25 |-> bm25, chunks |-> bm25_chunks,
                  reads |-> reads + 1]
            ELSE [raised |-> "", bm25 |-> built.bm25, chunks |-> built.chunks,
                  reads |-> reads + 1]
    ELSE [raised |-> "", bm25 |-> bm25,
          chunks |-> [i \in 1..Len(bm25_chunks) |-> bm25_chunks[Len(bm25_chunks) + 1 - i]],
          reads |-> reads]

\* _ensure_bm25_index: the index and chunk list the engine holds afterwards
ensure_bm25_index ==
    IF ~bm25.built
    THEN LET built == setup_bm25_index(get_all_chunks)
         IN IF built.raised # ""
            THEN [raised |-> built.raised, bm25 |-> bm25, chunks |-> bm25_chunks,
                  reads |-> reads + 1]
            ELSE [raised |-> "", bm25 |-> built.bm25, chunks |-> built.chunks,
                  reads |-> reads + 1]
    ELSE [raised |-> "", bm25 |-> bm25, chunks |-> bm25_chunks, reads |-> reads]

\* BM25Okapi.get_scores: the weights of the query terms a document holds
RECURSIVE DocScore(_, _)
DocScore(doc, tokens) ==
    IF Len(tokens) = 0 THEN 0
    ELSE (IF \E j \in 1..Len(doc) : doc[j] = tokens[1] THEN weights[tokens[1]] ELSE 0)
         + DocScore(doc, Tail(tokens))

get_scores(index, tokens) ==
    [i \in 1..Len(index.corpus) |-> Rat(DocScore(index.corpus[i], tokens), 1)]

\* np.argsort(scores)[::-1]: ascending and stable, then reversed
RECURSIVE InsertAsc(_, _, _)
InsertAsc(sorted, i, scores) ==
    IF Len(sorted) = 0 THEN <<i>>
    ELSE IF RLt(scores[i], scores[sorted[1]]) THEN <<i>> \o sorted
         ELSE <<sorted[1]>> \o InsertAsc(Tail(sorted), i, scores)

RECURSIVE ArgsortTo(_, _)
ArgsortTo(scores, n) ==
    IF n = 0 THEN <<>> ELSE InsertAsc(ArgsortTo(scores, n - 1), n, scores)

Reverse(s) == [i \in 1..Len(s) |-> s[Len(s) + 1 - i]]

ArgsortDesc(scores) == Reverse(ArgsortTo(scores, Len(scores)))

\* a lexical search that forgets the document filter
FilterScoresIgnored(scores, chunks, bill_number) == scores

\* lines 313-318
FilterScores(scores, chunks, bill_number) ==
    IF Truthy(bill_number)
    THEN [i \in 1..Len(scores) |->
            IF Get(Get(chunks[i], "metadata", <<>>), "bill_number", "") = bill_number[1]
            THEN scores[i] ELSE Zero]
    ELSE scores

\* lines 324-335
RECURSIVE FormatBM25(_, _, _)
FormatBM25(top_indices, scores, chunks) ==
    IF Len(top_indices) = 0 THEN <<>>
    ELSE LET idx == top_indices[1]
             chunk == chunks[idx]
         IN (IF RLt(Zero, scores[idx])
             THEN <<[id |-> chunk["id"], text |-> chunk["text"],
                     metadata |-> Get(chunk, "metadata", <<>>),
                     bm25_score |-> scores[idx]]>>
             ELSE <<>>)
            \o FormatBM25(Tail(top_indices), scores, chunks)

bm25_search(query, top_k, bill_number) ==
    LET ensured == ensure_bm25_index
        scores == FilterScores(get_scores(ensured.bm25, tokenize_query(query)),
                               ensured.chunks, bill_number)
    IN FormatBM25(Take(ArgsortDesc(scores), top_k), scores, ensured.chunks)

----------------------------------------------------------------------------
(* Dense index adapter *)

\* collection.query(n_results, where): the nearest chunks the filter admits
RECURSIVE NearestFirst(_, _)
NearestFirst(sorted, i) ==
    IF Len(sorted) = 0 THEN <<i>>
    ELSE IF distances[i] < distances[sorted[1]] THEN <<i>> \o sorted
         ELSE <<sorted[1]>> \o NearestFirst(Tail(sorted), i)

RECURSIVE StoreOrder(_)
StoreOrder(n) == IF n = 0 THEN <<>> ELSE NearestFirst(StoreOrder(n - 1), n)

Admits(where, chunk) ==
    where = None \/ Get(chunk["metadata"], "bill_number", "") = where[1]

StoreQuery(n_results, where) ==
    Take(SelectSeq(StoreOrder(Len(collection)), LAMBDA i : Admits(where, collection[i])),
         n_results)

Similarity(distance) == Rat(1, 1 + distance)

vector_search(query, top_k, bill_number) ==
    LET where_filter == IF Truthy(bill_number) THEN bill_number ELSE None
        results == StoreQuery(top_k, where_filter)
    IN [i \in 1..Len(results) |->
          [id |-> collection[results[i]]["id"],
           text |-> collection[results[i]]["text"],
           metadata |-> collection[results[i]]["metadata"],
           vector_score |-> Similarity(distances[results[i]]),
           distance |-> distances[results[i]]]]

----------------------------------------------------------------------------
(* Reranker *)

RerankScore(result) == Rat(rerank_model[IndexOf(collection, result["id"])], 1)

\* a reranker whose scores are attached but never used to reorder
rerank_results_unsorted(query, results) ==
    [i \in 1..Len(results) |-> Put(results[i], "rerank_score", RerankScore(results[i]))]

\* _rerank_results, lines 404-424
rerank_results(query, results) ==
    IF Len(results) = 0 THEN results
    ELSE SortedDesc([i \in 1..Len(results) |->
                        Put(results[i], "rerank_score", RerankScore(results[i]))],
                    "rerank_score")

----------------------------------------------------------------------------
(* Hybrid search and the query cache *)

RetrieveTopK == 20

cache_key(query, top_k, alpha, bill_number) ==
    Str(query) \o ":" \o ToString(top_k) \o ":" \o FormatFloat(alpha)
               \o ":" \o FormatOptional(bill_number)

Reranks == use_reranker /\ rerank_model # None

Unchanged == [raised |-> "", bm25 |-> bm25, chunks |-> bm25_chunks, reads |-> reads]

\* an exception leaving hybrid_search at one of its stages
Raise(error, invoked, index, vector) ==
    [raised |-> error, invoked |-> invoked, index |-> index, vector |-> vector,
     lexical |-> <<>>, combined |-> <<>>, results |-> <<>>]

\* a dense search whose failure is swallowed and leaves no vector candidates
dense_stage_swallowed(query, top_k, bill_number) ==
    IF failing \in {"embedder", "store"}
    THEN [raised |-> "", invoked |-> <<"embedder", "store">>, results |-> <<>>]
    ELSE [raised |-> "", invoked |-> <<"embedder", "store">>,
          results |-> vector_search(query, top_k, bill_number)]

\* line 237: _vector_search with the embedder (line 266) or the store (line 272) failing
dense_stage(query, top_k, bill_number) ==
    IF failing = "embedder"
    THEN [raised |-> "EmbedderFailure", invoked |-> <<"embedder">>, results |-> <<>>]
    ELSE IF failing = "store"
    THEN [raised |-> "StoreFailure", invoked |-> <<"embedder", "store">>, results |-> <<>>]
    ELSE [raised |-> "", invoked |-> <<"embedder", "store">>,
          results |-> vector_search(query, top_k, bill_number)]

\* a reranker whose failure is swallowed and leaves the fused order
rerank_stage_swallowed(query, final) ==
    IF Len(final) > 0 /\ failing = "reranker"
    THEN [raised |-> "", results |-> final]
    ELSE [raised |-> "", results |-> rerank_results(query, final)]

\* line 250: _rerank_results with reranker.predict (line 414) failing
rerank_stage(query, final) ==
    IF Len(final) > 0 /\ failing = "reranker"
    THEN [raised |-> "RerankerFailure", results |-> <<>>]
    ELSE [raised |-> "", results |-> rerank_results(query, final)]

\* a computation that runs the lexical search before the dense search
compute_lexical_first(query, top_k, alpha, bill_number) ==
    LET index == ensure_bm25_index
        dense == dense_stage(query, top_k * 2, bill_number)
    IN IF index.raised # "" THEN Raise(index.raised, <<>>, index, <<>>)
       ELSE IF dense.raised # ""
       THEN Raise(dense.raised, <<"bm25">> \o dense.invoked, index, <<>>)
       ELSE LET lexical == bm25_search(query, top_k * 2, bill_number)
                combined == fuse_results(dense.results, lexical, alpha)
                final == deduplicate_results(combined, top_k)
                reranked == IF Reranks THEN rerank_stage(query, final)
                            ELSE [raised |-> "", results |-> final]
            IN [raised |-> reranked.raised, index |-> index,
                vector |-> dense.results, lexical |-> lexical, combined |-> combined,
                results |-> reranked.results,
                invoked |-> <<"bm25">> \o dense.invoked \o <<"fuse">>
                            \o (IF Reranks /\ Len(final) > 0
                                THEN <<"reranker">> ELSE <<>>)]

\* lines 236-250: a fresh computation, with every local it makes and the stages
\* it entered, in order
compute(query, top_k, alpha, bill_number) ==
    LET dense == dense_stage(query, top_k * 2, bill_number)
        index == ensure_bm25_index
    IN IF dense.raised # "" THEN Raise(dense.raised, dense.invoked, Unchanged, <<>>)
       ELSE IF index.raised # ""
       THEN Raise(index.raised, dense.invoked, index, dense.results)
       ELSE LET lexical == bm25_search(query, top_k * 2, bill_number)
                combined == fuse_results(dense.results, lexical, alpha)
                final == deduplicate_results(combined, top_k)
                reranked == IF Reranks THEN rerank_stage(query, final)
                            ELSE [raised |-> "", results |-> final]
            IN [raised |-> reranked.raised, index |-> index,
                vector |-> dense.results, lexical |-> lexical, combined |-> combined,
                results |-> reranked.results,
                invoked |-> dense.invoked \o <<"bm25", "fuse">>
                            \o (IF Reranks /\ Len(final) > 0
                                THEN <<"reranker">> ELSE <<>>)]

\* a result that is returned without being stored
CacheStoreDropped(cache, key, results) == cache

\* lines 252-253
CacheStore(cache, key, results) == Put(cache, key, results)

\* what one hybrid_search call returns or raises, and leaves behind
hybrid_search(query, top_k, alpha, bill_number) ==
    LET key == cache_key(query, top_k, alpha, bill_number)
        fresh == compute(query, top_k, alpha, bill_number)
    IN IF key \in DOMAIN query_cache
       THEN [hit |-> TRUE, raised |-> "", returned |-> query_cache[key],
             cache |-> query_cache, index |-> Unchanged, invoked |-> <<>>,
             vector |-> <<>>, lexical |-> <<>>, combined |-> <<>>]
       ELSE [hit |-> FALSE, raised |-> fresh.raised, returned |-> fresh.results,
             cache |-> IF fresh.raised # "" THEN query_cache
                       ELSE CacheStore(query_cache, key, fresh.results),
             index |-> fresh.index, invoked |-> fresh.invoked,
             vector |-> fresh.vector, lexical |-> fresh.lexical,
             combined |-> fresh.combined]

----------------------------------------------------------------------------
(* Context packer *)

\* lines 467-474: the block of one ranked candidate
FormatChunk(result) ==
    LET section == Get(result["metadata"], "section", "Unknown")
        section_title == Get(result["metadata"], "section_title", "")
        header == IF section_title # "" THEN "Section " \o section \o " - " \o section_title
                  ELSE "Section " \o section
    IN <<header \o ":", "\n">> \o result["text"] \o <<"\n">>

\* count_tokens: a word is one token, a run of newlines one token per NewlineRunMax
RECURSIVE CountFrom(_, _)
CountFrom(text, run) ==
    IF Len(text) = 0 THEN 0
    ELSE IF IsNewline(text[1])
         THEN (IF run % NewlineRunMax = 0 THEN 1 ELSE 0) + CountFrom(Tail(text), run + 1)
         ELSE 1 + CountFrom(Tail(text), 0)

count_tokens(text) == CountFrom(text, 0)

\* a packer that skips a block that does not fit and tries the next one
RECURSIVE PackSkipping(_, _, _, _)
PackSkipping(results, max_tokens, context_parts, total_tokens) ==
    IF Len(results) = 0 THEN context_parts
    ELSE LET chunk_text == FormatChunk(results[1])
             chunk_tokens == count_tokens(chunk_text)
         IN IF total_tokens + chunk_tokens > max_tokens
            THEN PackSkipping(Tail(results), max_tokens, context_parts, total_tokens)
            ELSE PackSkipping(Tail(results), max_tokens, Append(context_parts, chunk_text),
                              total_tokens + chunk_tokens)

\* lines 465-484: the blocks packed into the budget, in ranked order
RECURSIVE Pack(_, _, _, _)
Pack(results, max_tokens, context_parts, total_tokens) ==
    IF Len(results) = 0 THEN context_parts
    ELSE LET chunk_text == FormatChunk(results[1])
             chunk_tokens == count_tokens(chunk_text)
         IN IF total_tokens + chunk_tokens > max_tokens THEN context_parts
            ELSE Pack(Tail(results), max_tokens, Append(context_parts, chunk_text),
                      total_tokens + chunk_tokens)

\* "\n".join(context_parts)
RECURSIVE Join(_)
Join(parts) == IF Len(parts) = 0 THEN <<>>
               ELSE IF Len(parts) = 1 THEN parts[1]
                    ELSE parts[1] \o <<"\n">> \o Join(Tail(parts))

----------------------------------------------------------------------------
(* The engine *)

Tuple(query, top_k, alpha, bill_number) == <<query, top_k, alpha, bill_number>>

Record(query, top_k, alpha, bill_number, search) ==
    IF Tuple(query, top_k, alpha, bill_number) \in DOMAIN history \/ search.raised # ""
    THEN history
    ELSE Put(history, Tuple(query, top_k, alpha, bill_number), search.returned)

Admitted(query, top_k, alpha, bill_number) ==
    \/ cache_key(query, top_k, alpha, bill_number) \in DOMAIN query_cache
    \/ Cardinality(DOMAIN query_cache) < MaxCache

Effects(query, top_k, alpha, bill_number, search) ==
    /\ search.index.reads <= MaxReads
    /\ query_cache' = search.cache
    /\ bm25' = search.index.bm25
    /\ bm25_chunks' = search.index.chunks
    /\ reads' = search.index.reads
    /\ history' = Record(query, top_k, alpha, bill_number, search)
    /\ vector_results' = search.vector
    /\ bm25_results' = search.lexical
    /\ combined_results' = search.combined
    /\ UNCHANGED <<collection, distances, weights, use_reranker, rerank_model, failing,
                   threads, arrays>>

\* what a call hands back: a list, a str, or an exception
Outcome(search) == IF search.raised # "" THEN "raise" ELSE "list"

HybridSearch(query, top_k, alpha, bill_number) ==
    /\ Admitted(query, top_k, alpha, bill_number)
    /\ \E search \in {hybrid_search(query, top_k, alpha, bill_number)} :
          /\ Effects(query, top_k, alpha, bill_number, search)
          /\ last' = [op |-> "hybrid_search", query |-> query, top_k |-> top_k,
                      alpha |-> alpha, bill_number |-> bill_number, max_tokens |-> 0,
                      hit |-> search.hit, invoked |-> search.invoked,
                      keywords |-> <<>>, match_all |-> FALSE,
                      type |-> Outcome(search), raised |-> search.raised,
                      returned |-> search.returned, context |-> <<>>]

RetrieveContext(bill_number, query, max_tokens, alpha) ==
    /\ Admitted(query, RetrieveTopK, alpha, bill_number)
    /\ \E search \in {hybrid_search(query, RetrieveTopK, alpha, bill_number)} :
          /\ Effects(query, RetrieveTopK, alpha, bill_number, search)
          /\ last' = [op |-> "retrieve_context", query |-> query, top_k |-> RetrieveTopK,
                      alpha |-> alpha, bill_number |-> bill_number,
                      max_tokens |-> max_tokens,
                      hit |-> search.hit, invoked |-> search.invoked,
                      keywords |-> <<>>, match_all |-> FALSE,
                      type |-> IF search.raised # "" THEN "raise" ELSE "str",
                      raised |-> search.raised,
                      returned |-> search.returned,
                      context |-> IF search.raised # "" THEN <<>>
                                  ELSE Join(Pack(search.returned, max_tokens, <<>>, 0))]

MaxTokens == 10

\* the store's distances: chunks at different distances, two of them tied
StoreDistances == [i \in 1..Len(TwoBillCorpus) |-> i % (MaxDist + 1)]

\* a cross-encoder that favours later chunks
RerankModel == [i \in 1..Len(TwoBillCorpus) |-> i]

NoCall == [op |-> "none", query |-> <<>>, top_k |-> 0, alpha |-> Zero,
           bill_number |-> None, max_tokens |-> 0, hit |-> FALSE, invoked |-> <<>>,
           keywords |-> <<>>, match_all |-> FALSE,
           type |-> "none", raised |-> "", returned |-> <<>>, context |-> <<>>]

\* RAGEngine.__init__
Constructed ==
    /\ bm25 = [built |-> FALSE, corpus |-> <<>>]
    /\ bm25_chunks = None
    /\ query_cache = <<>>
    /\ history = <<>>
    /\ last = NoCall
    /\ combined_results = <<>>
    /\ reads = 0

Init ==
    /\ collection = TwoBillCorpus
    /\ distances = StoreDistances
    /\ weights = [term \in Vocabulary |-> 1]
    /\ use_reranker \in BOOLEAN
    /\ rerank_model = (IF use_reranker THEN RerankModel ELSE None)
    /\ Constructed
    /\ vector_results = <<>>
    /\ bm25_results = <<>>
    /\ failing = "none"
    /\ threads = <<>>
    /\ arrays = <<>>

\* hybrid_search and retrieve_context calls on one engine
Next ==
    \/ \E query \in Queries, top_k \in TopKs, alpha \in Alphas, bill_number \in Bills :
          HybridSearch(query, top_k, alpha, bill_number)
    \/ \E bill_number \in Bills \ {None}, query \in Queries :
          RetrieveContext(bill_number, query, MaxTokens, Half)

Spec == Init /\ [][Next]_vars

\* retrieve_context calls under every token budget
NextContext ==
    \E bill_number \in Bills \ {None}, query \in Queries,
       max_tokens \in 0..MaxTokens, alpha \in Alphas :
       RetrieveContext(bill_number, query, max_tokens, alpha)

SpecContext == Init /\ [][NextContext]_vars

----------------------------------------------------------------------------
(* The scenario: the three-chunk corpus under every store and term weighting *)

InitScenario ==
    /\ collection = ScenarioCorpus
    /\ distances \in [1..Len(ScenarioCorpus) -> 0..MaxDist]
    /\ weights \in [{HealthcareFunding[i] : i \in 1..Len(HealthcareFunding)}
                     -> 1..MaxWeight]
    /\ use_reranker = FALSE
    /\ rerank_model = None
    /\ Constructed
    /\ vector_results = <<>>
    /\ bm25_results = <<>>
    /\ failing = "none"
    /\ threads = <<>>
    /\ arrays = <<>>

NextScenario ==
    \E top_k \in TopKs, alpha \in Alphas :
       HybridSearch(HealthcareFunding, top_k, alpha, None)

SpecScenario == InitScenario /\ [][NextScenario]_vars

----------------------------------------------------------------------------
(* Fusion and assembly of drawn result lists *)

FuseIds == {"chunk_0", "chunk_1", "chunk_2"}
FuseAlphas == {Zero, Half, One}

Injective(s) == \A i, j \in 1..Len(s) : s[i] = s[j] => i = j

IdLists == {s \in UNION {[1..n -> FuseIds] : n \in 0..MaxList} : Injective(s)}

\* what _vector_search hands to fusion: nearest first
VectorLists ==
    {[i \in 1..Len(ids) |->
        [id |-> ids[i], text |-> <<ids[i]>>, metadata |-> [bill_number |-> "H.R. 1"],
         vector_score |-> Similarity(d[i]), distance |-> d[i]]] :
     <<ids, d>> \in {p \in UNION {{<<ids, d>> : d \in [1..Len(ids) -> 0..MaxDist]} :
                                     ids \in IdLists} :
                       \A i \in 1..(Len(p[1]) - 1) : p[2][i] <= p[2][i + 1]}}

\* what _bm25_search hands to fusion: positive scores, highest first
BM25Lists ==
    {[i \in 1..Len(ids) |->
        [id |-> ids[i], text |-> <<ids[i]>>, metadata |-> [bill_number |-> "H.R. 1"],
         bm25_score |-> Rat(w[i], 1)]] :
     <<ids, w>> \in {p \in UNION {{<<ids, w>> : w \in [1..Len(ids) -> 1..MaxWeight]} :
                                     ids \in IdLists} :
                       \A i \in 1..(Len(p[1]) - 1) : p[2][i] >= p[2][i + 1]}}

InitFuse ==
    /\ collection = <<>>
    /\ distances = <<>>
    /\ weights = <<>>
    /\ use_reranker = FALSE
    /\ rerank_model = None
    /\ Constructed
    /\ vector_results \in VectorLists
    /\ bm25_results \in BM25Lists
    /\ failing = "none"
    /\ threads = <<>>
    /\ arrays = <<>>

\* steps 3 and 4 of hybrid_search on the drawn lists
Fuse(alpha, top_k) ==
    /\ last.op = "none"
    /\ combined_results' = fuse_results(vector_results, bm25_results, alpha)
    /\ last' = [NoCall EXCEPT !.op = "fuse", !.alpha = alpha, !.top_k = top_k,
                              !.returned = deduplicate_results(combined_results', top_k)]
    /\ UNCHANGED <<collection, distances, weights, use_reranker, rerank_model, bm25,
                   bm25_chunks, query_cache, history, vector_results, bm25_results,
                   failing, reads, threads, arrays>>

NextFuse == \E alpha \in FuseAlphas, top_k \in 1..MaxList : Fuse(alpha, top_k)

SpecFuse == InitFuse /\ [][NextFuse]_vars

----------------------------------------------------------------------------
(* Failing dependencies, empty corpora and parameters out of range *)

Dependencies == {"embedder", "store", "reranker"}

FaultAlphas == {Half, <<3, 2>>}

FaultBills == {None, Some("H.R. 1")}

InitFaults ==
    /\ collection \in {<<>>, TwoBillCorpus}
    /\ distances = StoreDistances
    /\ weights = [term \in Vocabulary |-> 1]
    /\ use_reranker \in BOOLEAN
    /\ rerank_model = (IF use_reranker THEN RerankModel ELSE None)
    /\ Constructed
    /\ vector_results = <<>>
    /\ bm25_results = <<>>
    /\ failing = "none"
    /\ threads = <<>>
    /\ arrays = <<>>

\* a dependency starts to fail
Fail(dependency) ==
    /\ failing = "none"
    /\ failing' = dependency
    /\ UNCHANGED <<collection, distances, weights, use_reranker, rerank_model, bm25,
                   bm25_chunks, query_cache, history, last, vector_results, bm25_results,
                   combined_results, reads, threads, arrays>>

\* the failing dependency works again
Recover ==
    /\ failing # "none"
    /\ failing' = "none"
    /\ UNCHANGED <<collection, distances, weights, use_reranker, rerank_model, bm25,
                   bm25_chunks, query_cache, history, last, vector_results, bm25_results,
                   combined_results, reads, threads, arrays>>

NextFaults ==
    \/ \E top_k \in TopKs, alpha \in FaultAlphas, bill_number \in FaultBills :
          HybridSearch(HealthcareFunding, top_k, alpha, bill_number)
    \/ \E dependency \in Dependencies : Fail(dependency)
    \/ Recover

SpecFaults == InitFaults /\ [][NextFaults]_vars

----------------------------------------------------------------------------
(* Engines with the reranker enabled, under every cross-encoder *)

\* reranker.predict: one score per chunk, ties included
RerankModels == [1..Len(TwoBillCorpus) -> 0..MaxWeight]

RerankBills == FaultBills \cup {Some("H.R. 3")}

InitRerank ==
    /\ collection = TwoBillCorpus
    /\ distances = StoreDistances
    /\ weights = [term \in Vocabulary |-> 1]
    /\ use_reranker = TRUE
    /\ rerank_model \in RerankModels
    /\ Constructed
    /\ vector_results = <<>>
    /\ bm25_results = <<>>
    /\ failing = "none"
    /\ threads = <<>>
    /\ arrays = <<>>

NextRerank ==
    \E top_k \in TopKs, bill_number \in RerankBills :
       HybridSearch(HealthcareFunding, top_k, Half, bill_number)

SpecRerank == InitRerank /\ [][NextRerank]_vars

----------------------------------------------------------------------------
(* Lexical search under every weighting of the query terms *)

InitLexical ==
    /\ collection = TwoBillCorpus
    /\ distances = StoreDistances
    /\ weights \in [{HealthcareFunding[i] : i \in 1..Len(HealthcareFunding)}
                     -> 0..MaxWeight]
    /\ use_reranker = FALSE
    /\ rerank_model = None
    /\ Constructed
    /\ vector_results = <<>>
    /\ bm25_results = <<>>
    /\ failing = "none"
    /\ threads = <<>>
    /\ arrays = <<>>

NextLexical ==
    \E top_k \in TopKs, alpha \in Alphas, bill_number \in RerankBills :
       HybridSearch(HealthcareFunding, top_k, alpha, bill_number)

SpecLexical == InitLexical /\ [][NextLexical]_vars

----------------------------------------------------------------------------
(* Context retrieval over a store that holds a chunk with no text *)

MalformedCorpus ==
    TwoBillCorpus \o
    <<[id |-> "chunk_4", text |-> NoText,
       metadata |-> [section |-> "3", bill_number |-> "H.R. 1", start_char |-> 300]]>>

InitMalformed ==
    /\ collection \in {TwoBillCorpus, MalformedCorpus}
    /\ distances = [i \in 1..Len(collection) |-> i % (MaxDist + 1)]
    /\ weights = [term \in Vocabulary |-> 1]
    /\ use_reranker = FALSE
    /\ rerank_model = None
    /\ Constructed
    /\ vector_results = <<>>
    /\ bm25_results = <<>>
    /\ failing = "none"
    /\ threads = <<>>
    /\ arrays = <<>>

NextMalformed ==
    \E bill_number \in FaultBills \ {None}, query \in Queries, max_tokens \in 0..MaxTokens :
       RetrieveContext(bill_number, query, max_tokens, Half)

SpecMalformed == InitMalformed /\ [][NextMalformed]_vars

----------------------------------------------------------------------------
(* Threads making their first lexical query on one shared engine *)

Threads == 1..NumThreads

InitThreads ==
    /\ collection = ScenarioCorpus
    /\ distances = [i \in 1..Len(ScenarioCorpus) |-> 0]
    /\ weights = [term \in Vocabulary |-> 1]
    /\ use_reranker = FALSE
    /\ rerank_model = None
    /\ Constructed
    /\ vector_results = <<>>
    /\ bm25_results = <<>>
    /\ failing = "none"
    /\ arrays = <<>>
    /\ threads = [t \in Threads |-> [pc |-> "enter", built |-> FALSE, saw |-> "nothing"]]

Shared == <<collection, distances, weights, use_reranker, rerank_model, query_cache,
            history, last, vector_results, bm25_results, combined_results, failing,
            arrays>>

\* line 183: if self.bm25 is None
Enter(t) ==
    /\ threads[t].pc = "enter"
    /\ threads' = [threads EXCEPT ![t].pc = IF bm25.built THEN "score" ELSE "build"]
    /\ UNCHANGED <<bm25, bm25_chunks, reads>>
    /\ UNCHANGED Shared

\* lines 185-186, right-hand side: the corpus is read and the index built
Build(t) ==
    /\ threads[t].pc = "build"
    /\ reads' = reads + 1
    /\ threads' = [threads EXCEPT ![t].pc = "store_bm25", ![t].built = TRUE]
    /\ UNCHANGED <<bm25, bm25_chunks>>
    /\ UNCHANGED Shared

\* line 186, first target: self.bm25 = ...
StoreIndex(t) ==
    /\ threads[t].pc = "store_bm25"
    /\ bm25' = setup_bm25_index(get_all_chunks).bm25
    /\ threads' = [threads EXCEPT ![t].pc = "store_chunks"]
    /\ UNCHANGED <<bm25_chunks, reads>>
    /\ UNCHANGED Shared

\* line 186, second target: self.bm25_chunks = ...
StoreChunks(t) ==
    /\ threads[t].pc = "store_chunks"
    /\ bm25_chunks' = setup_bm25_index(get_all_chunks).chunks
    /\ threads' = [threads EXCEPT ![t].pc = "score"]
    /\ UNCHANGED <<bm25, reads>>
    /\ UNCHANGED Shared

\* line 310: self.bm25.get_scores
Score(t) ==
    /\ threads[t].pc = "score"
    /\ threads' = [threads EXCEPT ![t].pc = "collect"]
    /\ UNCHANGED <<bm25, bm25_chunks, reads>>
    /\ UNCHANGED Shared

\* lines 313-333: self.bm25_chunks is read; None cannot be enumerated or subscripted
Collect(t) ==
    /\ threads[t].pc = "collect"
    /\ threads' = [threads EXCEPT ![t].pc = "done",
                                  ![t].saw = IF bm25_chunks = None THEN "partial"
                                             ELSE "complete"]
    /\ UNCHANGED <<bm25, bm25_chunks, reads>>
    /\ UNCHANGED Shared

NextThreads ==
    \E t \in Threads :
       \/ Enter(t) \/ Build(t) \/ StoreIndex(t) \/ StoreChunks(t) \/ Score(t) \/ Collect(t)

SpecThreads == InitThreads /\ [][NextThreads]_vars

----------------------------------------------------------------------------
(* Two threads running hybrid_search on one shared engine *)

Racers == {1, 2}

RaceTuples == {Tuple(HealthcareFunding, top_k, Half, bill_number) :
                 top_k \in TopKs, bill_number \in FaultBills}

Idle == [pc |-> "idle", built |-> FALSE, saw |-> "nothing", tuple |-> <<>>,
         vector |-> <<>>, returned |-> <<>>, raised |-> ""]

InitRace ==
    /\ collection = TwoBillCorpus
    /\ distances = StoreDistances
    /\ weights = [term \in Vocabulary |-> 1]
    /\ use_reranker = FALSE
    /\ rerank_model = None
    /\ Constructed
    /\ vector_results = <<>>
    /\ bm25_results = <<>>
    /\ failing = "none"
    /\ arrays = <<>>
    /\ threads = [t \in Racers |-> Idle]

\* lines 229-237: the cache is looked up; on a miss the dense search runs
Begin(t, tuple) ==
    /\ threads[t].pc \in {"idle", "returned"}
    /\ LET key == cache_key(tuple[1], tuple[2], tuple[3], tuple[4])
       IN threads' = [threads EXCEPT ![t] =
            IF key \in DOMAIN query_cache
            THEN [Idle EXCEPT !.pc = "returned", !.tuple = tuple,
                              !.returned = query_cache[key]]
            ELSE [Idle EXCEPT !.pc = "enter", !.tuple = tuple,
                              !.vector = vector_search(tuple[1], tuple[2] * 2, tuple[4])]]
    /\ UNCHANGED <<collection, distances, weights, use_reranker, rerank_model, bm25,
                   bm25_chunks, query_cache, history, last, vector_results, bm25_results,
                   combined_results, failing, reads, arrays>>

\* lines 313-326 reading a chunk list that is still None
ReadsMissingChunks(tuple) ==
    \/ Truthy(tuple[4])
    \/ LET scores == get_scores(bm25, tokenize_query(tuple[1]))
       IN \E i \in 1..Len(scores) : RLt(Zero, scores[i])

\* lines 243-256: fusion, cut, optional rerank, cache write and return
Finish(t) ==
    /\ threads[t].pc = "done"
    /\ LET tuple == threads[t].tuple
           missing == threads[t].saw = "partial"
           lexical == IF missing THEN <<>> ELSE bm25_search(tuple[1], tuple[2] * 2, tuple[4])
           combined == fuse_results(threads[t].vector, lexical, tuple[3])
           final == deduplicate_results(combined, tuple[2])
           results == IF Reranks THEN rerank_results(tuple[1], final) ELSE final
       IN IF missing /\ ReadsMissingChunks(tuple)
          THEN /\ threads' = [threads EXCEPT ![t].pc = "returned",
                                             ![t].raised = "TypeError"]
               /\ UNCHANGED query_cache
          ELSE /\ threads' = [threads EXCEPT ![t].pc = "returned",
                                             ![t].returned = results]
               /\ query_cache' = CacheStore(query_cache,
                                    cache_key(tuple[1], tuple[2], tuple[3], tuple[4]),
                                    results)
    /\ UNCHANGED <<collection, distances, weights, use_reranker, rerank_model, bm25,
                   bm25_chunks, history, last, vector_results, bm25_results,
                   combined_results, failing, reads, arrays>>

NextRace ==
    \E t \in Racers :
       \/ \E tuple \in RaceTuples : Begin(t, tuple)
       \/ Enter(t) \/ Build(t) \/ StoreIndex(t) \/ StoreChunks(t) \/ Score(t) \/ Collect(t)
       \/ Finish(t)

SpecRace == InitRace /\ [][NextRace]_vars

----------------------------------------------------------------------------
(* Whole-bill context and keyword search *)

DefaultFullTokens == 8000

\* collection.get(where={"bill_number": bill_number}), in the store's own order
StoreGet(bill_number) ==
    SelectSeq([i \in 1..Len(collection) |->
                  [id |-> collection[i]["id"], text |-> collection[i]["text"],
                   metadata |-> collection[i]["metadata"]]],
              LAMBDA chunk : Get(chunk["metadata"], "bill_number", "") = bill_number)

StartChar(chunk) == Get(chunk["metadata"], "start_char", 0)

\* sorted(chunks, key=start_char): stable, equal keys keep their order
RECURSIVE InsertByStart(_, _)
InsertByStart(sorted, chunk) ==
    IF Len(sorted) = 0 THEN <<chunk>>
    ELSE IF StartChar(chunk) < StartChar(sorted[Len(sorted)])
         THEN Append(InsertByStart(SubSeq(sorted, 1, Len(sorted) - 1), chunk),
                     sorted[Len(sorted)])
         ELSE Append(sorted, chunk)

RECURSIVE SortedByStart(_)
SortedByStart(chunks) ==
    IF Len(chunks) = 0 THEN <<>>
    ELSE InsertByStart(SortedByStart(SubSeq(chunks, 1, Len(chunks) - 1)),
                       chunks[Len(chunks)])

\* lines 527-532: an optional section header, then the text, for each chunk
RECURSIVE ContextParts(_)
ContextParts(chunks) ==
    IF Len(chunks) = 0 THEN <<>>
    ELSE LET section == Get(chunks[1]["metadata"], "section", "")
             section_title == Get(chunks[1]["metadata"], "section_title", "")
         IN (IF section # "" /\ section_title # ""
             THEN <<(<<"[Section " \o section \o ": " \o section_title \o "]">>)>>
             ELSE <<>>)
            \o <<chunks[1]["text"]>> \o ContextParts(Tail(chunks))

\* "\n\n".join(context_parts)
RECURSIVE JoinBlank(_)
JoinBlank(parts) == IF Len(parts) = 0 THEN <<>>
                    ELSE IF Len(parts) = 1 THEN parts[1]
                         ELSE parts[1] \o <<"\n", "\n">> \o JoinBlank(Tail(parts))

\* tokenizer.decode(tokens[:n]): the text its first n tokens spell
RECURSIVE DecodeFirst(_, _, _)
DecodeFirst(text, run, n) ==
    IF Len(text) = 0 THEN <<>>
    ELSE LET starts == ~IsNewline(text[1]) \/ run % NewlineRunMax = 0
             left == IF starts THEN n - 1 ELSE n
         IN IF left < 0 THEN <<>>
            ELSE <<text[1]>> \o DecodeFirst(Tail(text),
                                            IF IsNewline(text[1]) THEN run + 1 ELSE 0,
                                            left)

\* the str get_full_bill_context returns
get_full_bill_context(bill_number, max_tokens) ==
    LET chunks_sorted == SortedByStart(StoreGet(bill_number))
        full_context == JoinBlank(ContextParts(chunks_sorted))
    IN IF max_tokens # 0 /\ count_tokens(full_context) > max_tokens
       THEN DecodeFirst(full_context, 0, max_tokens)
       ELSE full_context

\* keyword.lower() in text_lower, for keywords that are whole words of the text
Contains(text, keyword) == \E i \in 1..Len(text) : Lower(text[i]) = Lower(keyword)

\* find_specific_provisions: the loop at line 577 runs over the characters of the str
\* and subscripts the first of them with "text"
find_specific_provisions(bill_number, keywords, match_all) ==
    LET all_chunks == get_full_bill_context(bill_number, DefaultFullTokens)
    IN IF Len(all_chunks) = 0
       THEN [raised |-> "", returned |-> <<>>]
       ELSE [raised |-> "TypeError", returned |-> <<>>]

GetFullBillContext(bill_number, max_tokens) ==
    /\ last' = [NoCall EXCEPT !.op = "get_full_bill_context",
                              !.bill_number = Some(bill_number),
                              !.max_tokens = max_tokens, !.type = "str",
                              !.context = get_full_bill_context(bill_number, max_tokens)]
    /\ UNCHANGED <<collection, distances, weights, use_reranker, rerank_model, bm25,
                   bm25_chunks, query_cache, history, vector_results, bm25_results,
                   combined_results, failing, reads, threads, arrays>>

FindSpecificProvisions(bill_number, keywords, match_all) ==
    /\ \E found \in {find_specific_provisions(bill_number, keywords, match_all)} :
          last' = [NoCall EXCEPT !.op = "find_specific_provisions",
                                 !.bill_number = Some(bill_number),
                                 !.keywords = keywords, !.match_all = match_all,
                                 !.type = IF found.raised # "" THEN "raise" ELSE "list",
                                 !.raised = found.raised, !.returned = found.returned]
    /\ UNCHANGED <<collection, distances, weights, use_reranker, rerank_model, bm25,
                   bm25_chunks, query_cache, history, vector_results, bm25_results,
                   combined_results, failing, reads, threads, arrays>>

BillNumbers == {"H.R. 1", "H.R. 2", "H.R. 3"}

KeywordLists == {<<"education", "Secretary">>, <<"healthcare", "funding">>,
                 <<"healthcare">>}

\* the orders in which the store may hold the corpus
StoreOrders ==
    {[i \in 1..Len(TwoBillCorpus) |-> TwoBillCorpus[p[i]]] :
        p \in {q \in [1..Len(TwoBillCorpus) -> 1..Len(TwoBillCorpus)] :
                  \A i, j \in 1..Len(TwoBillCorpus) : q[i] = q[j] => i = j}}

InitBill ==
    /\ collection \in StoreOrders
    /\ distances = StoreDistances
    /\ weights = [term \in Vocabulary |-> 1]
    /\ use_reranker = FALSE
    /\ rerank_model = None
    /\ Constructed
    /\ vector_results = <<>>
    /\ bm25_results = <<>>
    /\ failing = "none"
    /\ threads = <<>>
    /\ arrays = <<>>

NextBill ==
    \/ \E bill_number \in BillNumbers, max_tokens \in (0..MaxTokens) \cup {DefaultFullTokens} :
          GetFullBillContext(bill_number, max_tokens)
    \/ \E bill_number \in BillNumbers, keywords \in KeywordLists, match_all \in BOOLEAN :
          FindSpecificProvisions(bill_number, keywords, match_all)

SpecBill == InitBill /\ [][NextBill]_vars

----------------------------------------------------------------------------
(* A caller that keeps the lists hybrid_search handed it *)

\* list.pop() and list.clear() on a result list
Mutations(results) ==
    IF Len(results) = 0 THEN {} ELSE {SubSeq(results, 1, Len(results) - 1), <<>>}

\* lines 253-256 and 232: the list stored under a key is the very list the caller
\* was handed, so what the caller does to it is done to the cache entry
CallerMutates ==
    /\ \E key \in DOMAIN query_cache :
          \E mutated \in Mutations(query_cache[key]) :
             query_cache' = [query_cache EXCEPT ![key] = mutated]
    /\ UNCHANGED <<collection, distances, weights, use_reranker, rerank_model, bm25,
                   bm25_chunks, history, last, vector_results, bm25_results,
                   combined_results, failing, reads, threads, arrays>>

NextCaller ==
    \/ \E top_k \in TopKs, bill_number \in FaultBills :
          HybridSearch(HealthcareFunding, top_k, Half, bill_number)
    \/ \E bill_number \in FaultBills \ {None} :
          RetrieveContext(bill_number, HealthcareFunding, MaxTokens, Half)
    \/ \E bill_number \in BillNumbers : GetFullBillContext(bill_number, MaxTokens)
    \/ \E bill_number \in BillNumbers, keywords \in KeywordLists :
          FindSpecificProvisions(bill_number, keywords, FALSE)
    \/ CallerMutates

SpecCaller == Init /\ [][NextCaller]_vars

----------------------------------------------------------------------------
(* Score normalisation on drawn arrays *)

ScoreValues == {Rat(n, 2) : n \in 0..(2 * MaxScore)}

ScoreArrays == UNION {[1..n -> ScoreValues] : n \in 0..MaxScores}

InitNormalize ==
    /\ collection = <<>>
    /\ distances = <<>>
    /\ weights = <<>>
    /\ use_reranker = FALSE
    /\ rerank_model = None
    /\ Constructed
    /\ vector_results = <<>>
    /\ bm25_results = <<>>
    /\ failing = "none"
    /\ threads = <<>>
    /\ arrays \in {[array |-> a, passes |-> 0, once |-> <<>>, twice |-> <<>>] :
                      a \in ScoreArrays}

\* normalize_scores applied to the array, then to its own result
Normalize ==
    /\ arrays.passes < MaxPasses
    /\ arrays' = IF arrays.passes = 0
                 THEN [arrays EXCEPT !.passes = 1, !.once = normalize_scores(arrays.array)]
                 ELSE [arrays EXCEPT !.passes = @ + 1,
                                     !.twice = normalize_scores(IF arrays.passes = 1
                                                                THEN arrays.once
                                                                ELSE arrays.twice)]
    /\ last' = [NoCall EXCEPT !.op = "normalize_scores", !.type = "list"]
    /\ UNCHANGED <<collection, distances, weights, use_reranker, rerank_model, bm25,
                   bm25_chunks, query_cache, history, vector_results, bm25_results,
                   combined_results, failing, reads, threads>>

NextNormalize == Normalize

SpecNormalize == InitNormalize /\ [][NextNormalize]_vars

----------------------------------------------------------------------------
(* Properties of the engine *)

FinalScore(r) == Get(r, "final_score", Zero)

SortedByFinalScore(results) ==
    \A i, j \in 1..Len(results) : i < j => RLe(FinalScore(results[j]), FinalScore(results[i]))

LastTuple == Tuple(last.query, last.top_k, last.alpha, last.bill_number)

Searched == last.op \in {"hybrid_search", "retrieve_context"}

\* C1: every hybrid_search call with top_k >= 1, computed freshly or served from the
\* cache, returns at most top_k elements, sorted by non-increasing final_score when the
\* reranker is disabled.
C1_TopKContract ==
    last.op = "hybrid_search" =>
        /\ Len(last.returned) <= last.top_k
        /\ (~use_reranker => SortedByFinalScore(last.returned))

\* C2: the string retrieve_context returns, blocks and joining separators together,
\* counts at most max_tokens tokens.
C2_TokenBudget ==
    last.op = "retrieve_context" => count_tokens(last.context) <= last.max_tokens

\* C3: a call made with a non-empty document filter never returns a chunk of another
\* bill, whatever calls ran before it.
C3_FilterIsolation ==
    (Searched /\ Truthy(last.bill_number)) =>
        \A i \in 1..Len(last.returned) :
            Get(last.returned[i]["metadata"], "bill_number", "") = last.bill_number[1]

\* C4: calls whose (query, top_k, alpha, filter) tuples differ never share a cache
\* entry, so each call returns the result computed for its own tuple.
C4_ExactTupleKey ==
    /\ \A t1, t2 \in DOMAIN history :
          t1 # t2 => cache_key(t1[1], t1[2], t1[3], t1[4]) # cache_key(t2[1], t2[2], t2[3], t2[4])
    /\ Searched =>
          last.returned = compute(last.query, last.top_k, last.alpha, last.bill_number).results

\* C5: a call that repeats the tuple of an earlier call returns the list that call
\* returned and invokes neither embedder, store, lexical index nor reranker.
C5_RepeatServedFromCache ==
    [][(Searched' /\ LastTuple' \in DOMAIN history) =>
          /\ last'.returned = history[LastTuple']
          /\ last'.invoked = <<>>
          /\ last'.hit]_vars

\* a repeated call on an engine that has served other queries too
C5_Witness ==
    /\ last.op = "hybrid_search"
    /\ last.hit
    /\ Len(last.returned) > 0
    /\ Cardinality(DOMAIN query_cache) >= 2
    /\ last.returned = history[LastTuple]

----------------------------------------------------------------------------
(* Properties of fusion *)

Fused == last.op = "fuse"

\* the fused ordering before truncation
Ranking(alpha) == SortedDesc(fuse_results(vector_results, bm25_results, alpha), "final_score")

Position(ranking, id) == IndexOf(ranking, id)

\* the raw score a list gives a candidate, if it holds the candidate at all
Holds(results, id) == id \in Ids(results)
Raw(results, key, id) == results[IndexOf(results, id)][key]

\* the normalized score a list gives a candidate, 0 when it does not hold it
Norm(results, key, id) ==
    IF Holds(results, id)
    THEN normalize_scores([i \in 1..Len(results) |-> results[i][key]])[IndexOf(results, id)]
    ELSE Zero

\* candidate a does not rank below candidate b in a pure ranking by one list's raw score,
\* where a candidate the list does not hold ranks below every candidate it holds
NotBelow(results, key, a, b) ==
    /\ Holds(results, b) => Holds(results, a)
    /\ (Holds(results, a) /\ Holds(results, b)) =>
          RLe(Raw(results, key, b), Raw(results, key, a))

\* the returned list is a prefix of a pure ranking of the fused candidates
PureRanking(results, key) ==
    /\ \A i, j \in 1..Len(last.returned) :
          i < j => NotBelow(results, key, last.returned[i]["id"], last.returned[j]["id"])
    /\ \A i \in 1..Len(last.returned) :
          \A id \in Ids(combined_results) \ Ids(last.returned) :
             NotBelow(results, key, last.returned[i]["id"], id)

\* C6: with alpha = 0.0 the candidates come back in descending raw BM25 score, none
\* without a lexical match above one with a lexical match.
C6_PureBM25 ==
    (Fused /\ last.alpha = Zero) => PureRanking(bm25_results, "bm25_score")

\* C7: with alpha = 1.0 the candidates come back in descending raw vector score, the
\* lexical-only candidates after every candidate the store returned.
C7_PureVector ==
    (Fused /\ last.alpha = One) => PureRanking(vector_results, "vector_score")

\* the furthest vector candidate, normalized to 0, is returned and a lexical-only
\* candidate with the same final_score is cut
C7_Witness ==
    /\ Fused
    /\ last.alpha = One
    /\ \E i \in 1..Len(last.returned) :
          /\ Holds(vector_results, last.returned[i]["id"])
          /\ last.returned[i]["final_score"] = Zero
          /\ \E id \in Ids(combined_results) \ Ids(last.returned) :
                /\ ~Holds(vector_results, id)
                /\ Holds(bm25_results, id)

\* C8: the fused set holds every id of either list exactly once, and each final_score
\* is alpha * norm_vector + (1 - alpha) * norm_bm25, a missing side counting 0.
C8_FusionFormula ==
    Fused =>
        /\ Ids(combined_results) = Ids(vector_results) \cup Ids(bm25_results)
        /\ Len(combined_results) = Cardinality(Ids(combined_results))
        /\ \A i \in 1..Len(combined_results) :
              combined_results[i]["final_score"] =
                 RAdd(RMul(last.alpha,
                           Norm(vector_results, "vector_score", combined_results[i]["id"])),
                      RMul(RSub(One, last.alpha),
                           Norm(bm25_results, "bm25_score", combined_results[i]["id"])))

\* candidates held by both lists, by the vector list only and by the lexical list only
C8_Witness ==
    /\ Fused
    /\ last.alpha = Half
    /\ \E a, b, c \in Ids(combined_results) :
          /\ Holds(vector_results, a) /\ Holds(bm25_results, a)
          /\ Holds(vector_results, b) /\ ~Holds(bm25_results, b)
          /\ ~Holds(vector_results, c) /\ Holds(bm25_results, c)
          /\ RLt(Zero, Norm(vector_results, "vector_score", a))
          /\ RLt(Zero, Norm(bm25_results, "bm25_score", a))

\* the candidates whose normalized vector score exceeds their normalized BM25 score
VectorLeaning ==
    {id \in Ids(combined_results) :
        RLt(Norm(bm25_results, "bm25_score", id), Norm(vector_results, "vector_score", id))}

FinalIn(ranking, id) == ranking[Position(ranking, id)]["final_score"]

\* C9: raising alpha moves a candidate whose normalized vector score exceeds its
\* normalized BM25 score to a strictly better rank.
C9_RankImproves ==
    Fused =>
        LET ranking1 == Ranking(last.alpha)
        IN \A alpha2 \in FuseAlphas :
              RLt(last.alpha, alpha2) =>
                 LET ranking2 == Ranking(alpha2)
                 IN \A id \in VectorLeaning :
                       Position(ranking2, id) < Position(ranking1, id)

\* C9, amended: raising alpha strictly raises the final_score of such a candidate, and
\* no candidate whose normalized vector score does not exceed its normalized BM25 score
\* that ranked below it comes to rank above it; its rank need not improve.
C9_ScoreImproves ==
    Fused =>
        LET ranking1 == Ranking(last.alpha)
            leaning == VectorLeaning
        IN \A alpha2 \in FuseAlphas :
              RLt(last.alpha, alpha2) =>
                 LET ranking2 == Ranking(alpha2)
                 IN \A id \in leaning :
                       /\ RLt(FinalIn(ranking1, id), FinalIn(ranking2, id))
                       /\ \A other \in Ids(combined_results) \ leaning :
                             Position(ranking1, id) < Position(ranking1, other)
                                => Position(ranking2, id) < Position(ranking2, other)

\* a vector-leaning candidate that stays at the same rank, ahead of another candidate
C9_Witness ==
    /\ Fused
    /\ last.alpha = Zero
    /\ \E id \in VectorLeaning : \E other \in Ids(combined_results) \ VectorLeaning :
          /\ Position(Ranking(Zero), id) < Position(Ranking(Zero), other)
          /\ Position(Ranking(One), id) = Position(Ranking(Zero), id)

\* C10: in the three-chunk scenario, whenever chunk_1 is not strictly closer to the
\* query than chunk_0 or chunk_2, chunk_0 and chunk_2 both rank above chunk_1.
C10_Scenario ==
    (/\ last.op = "hybrid_search"
     /\ last.query = HealthcareFunding
     /\ last.top_k = 2
     /\ last.alpha = Half
     /\ last.bill_number = None
     /\ ~last.hit
     /\ distances[2] >= distances[1]
     /\ distances[2] >= distances[3]) =>
        /\ Position(Ranking(Half), "chunk_0") < Position(Ranking(Half), "chunk_1")
        /\ Position(Ranking(Half), "chunk_2") < Position(Ranking(Half), "chunk_1")
        /\ Ids(last.returned) = {"chunk_0", "chunk_2"}

----------------------------------------------------------------------------
(* Properties of normalisation *)

Normalized == arrays # <<>> /\ arrays.passes >= 1

AllEqual(array) == \A i, j \in 1..Len(array) : array[i] = array[j]

\* the least and the greatest value of an array
Least(array) == CHOOSE x \in {array[i] : i \in 1..Len(array)} :
                   \A i \in 1..Len(array) : RLe(x, array[i])
Greatest(array) == CHOOSE x \in {array[i] : i \in 1..Len(array)} :
                      \A i \in 1..Len(array) : RLe(array[i], x)

\* C11: normalize_scores keeps the length and returns values in [0,1]: (s - min)/(max -
\* min) when the scores differ, so min goes to 0 and max to 1; all 1.0 when every score
\* is the same; the empty array for the empty array; no division by zero.
C11_NormalizeRange ==
    Normalized =>
        /\ Len(arrays.once) = Len(arrays.array)
        /\ \A i \in 1..Len(arrays.once) :
              /\ arrays.once[i][2] > 0
              /\ RLe(Zero, arrays.once[i]) /\ RLe(arrays.once[i], One)
              /\ AllEqual(arrays.array) => arrays.once[i] = One
              /\ ~AllEqual(arrays.array) =>
                    /\ RMul(arrays.once[i],
                            RSub(Greatest(arrays.array), Least(arrays.array)))
                          = RSub(arrays.array[i], Least(arrays.array))
                    /\ arrays.array[i] = Least(arrays.array) => arrays.once[i] = Zero
                    /\ arrays.array[i] = Greatest(arrays.array) => arrays.once[i] = One

\* an array of ties that are not zero, normalized
C11_Witness ==
    /\ Normalized
    /\ Len(arrays.array) = MaxScores
    /\ AllEqual(arrays.array)
    /\ arrays.array[1] = Rat(MaxScore, 1)
    /\ arrays.once = [i \in 1..MaxScores |-> One]

\* C12: normalizing a normalized non-empty array changes nothing, and an array of ties
\* stays all 1.0 however often it is normalized.
C12_Idempotent ==
    (arrays # <<>> /\ arrays.passes >= 2 /\ Len(arrays.array) > 0) =>
        /\ arrays.twice = arrays.once
        /\ AllEqual(arrays.array) => \A i \in 1..Len(arrays.twice) : arrays.twice[i] = One

\* an array with a value strictly between its extremes, normalized twice
C12_Witness ==
    /\ arrays # <<>>
    /\ arrays.passes = MaxPasses
    /\ \E i \in 1..Len(arrays.array) :
          /\ RLt(Zero, arrays.once[i]) /\ RLt(arrays.once[i], One)
          /\ arrays.twice[i] = arrays.once[i]
          /\ arrays.array[i] # arrays.once[i]

----------------------------------------------------------------------------
(* Properties of whole-bill retrieval *)

\* the stored chunks of a bill
StoredOf(bill_number) ==
    {i \in 1..Len(collection) :
        Get(collection[i]["metadata"], "bill_number", "") = bill_number}

MatchCount(text, keywords) ==
    Cardinality({k \in 1..Len(keywords) : Contains(text, keywords[k])})

\* the chunks the keyword search is to return
Matching(bill_number, keywords, match_all) ==
    {collection[i]["id"] : i \in
        {j \in StoredOf(bill_number) :
            IF match_all
            THEN MatchCount(collection[j]["text"], keywords) = Len(keywords)
            ELSE MatchCount(collection[j]["text"], keywords) >= 1}}

\* C13: find_specific_provisions returns exactly the chunks of the bill that hold any
\* keyword (every keyword when match_all), each with keyword_matches the number of
\* keywords it holds, sorted by keyword_matches in non-increasing order.
C13_Provisions ==
    last.op = "find_specific_provisions" =>
        /\ last.type = "list"
        /\ Ids(last.returned) = Matching(last.bill_number[1], last.keywords, last.match_all)
        /\ Len(last.returned) = Cardinality(Ids(last.returned))
        /\ \A i \in 1..Len(last.returned) :
              last.returned[i]["keyword_matches"]
                 = MatchCount(last.returned[i]["text"], last.keywords)
        /\ \A i, j \in 1..Len(last.returned) :
              i < j => last.returned[i]["keyword_matches"]
                          >= last.returned[j]["keyword_matches"]

\* C14: get_full_bill_context yields one element per stored chunk of the bill, each with
\* its metadata, in non-decreasing start_char order whatever the store's order.
C14_DocumentOrder ==
    last.op = "get_full_bill_context" =>
        /\ last.type = "list"
        /\ Len(last.returned) = Cardinality(StoredOf(last.bill_number[1]))
        /\ \A i \in 1..Len(last.returned) :
              /\ "metadata" \in DOMAIN last.returned[i]
              /\ \E j \in StoredOf(last.bill_number[1]) :
                    /\ collection[j]["id"] = last.returned[i]["id"]
                    /\ collection[j]["metadata"] = last.returned[i]["metadata"]
        /\ \A i, j \in 1..Len(last.returned) :
              i < j => StartChar(last.returned[i]) <= StartChar(last.returned[j])

----------------------------------------------------------------------------
(* Properties of failure *)

\* a step that is a call, not a change of the dependencies
Called == failing' = failing

LastKey == cache_key(last.query, last.top_k, last.alpha, last.bill_number)

\* the last call made once more
Retry == hybrid_search(last.query, last.top_k, last.alpha, last.bill_number)

\* C15: setup_bm25_index([]) raises, and hybrid_search on an empty corpus ends in that
\* error, with the index still unbuilt and no cache entry for the call.
C15_EmptyCorpus ==
    /\ setup_bm25_index(<<>>).raised = "ValueError"
    /\ [][(Called /\ Len(collection) = 0) =>
             /\ last'.op = "hybrid_search"
             /\ last'.type = "raise"
             /\ failing = "none" => last'.raised = "ValueError"
             /\ last'.returned = <<>>
             /\ ~bm25'.built /\ bm25_chunks' = None
             /\ LastKey' \notin DOMAIN query_cache']_vars

\* the index build was attempted on an empty corpus and failed
C15_Witness ==
    /\ Len(collection) = 0
    /\ last.op = "hybrid_search"
    /\ last.raised = "ValueError"
    /\ last.invoked = <<"embedder", "store">>
    /\ reads >= 1
    /\ ~bm25.built

\* C16: when the embedder or the dense store fails, hybrid_search ends in an error, not
\* in a lexical-only list, and writes no cache entry, so the same call searches again.
C16_UpstreamFailure ==
    [][(Called /\ failing \in {"embedder", "store"} /\ ~last'.hit) =>
          /\ last'.type = "raise"
          /\ last'.raised = (IF failing = "embedder" THEN "EmbedderFailure"
                             ELSE "StoreFailure")
          /\ last'.returned = <<>>
          /\ "bm25" \notin {last'.invoked[i] : i \in 1..Len(last'.invoked)}
          /\ query_cache' = query_cache
          /\ LastKey' \notin DOMAIN query_cache'
          /\ Retry'.invoked # <<>>]_vars

\* the store fails on an engine that has answered other queries
C16_Witness ==
    /\ failing = "store"
    /\ last.op = "hybrid_search"
    /\ last.raised = "StoreFailure"
    /\ bm25.built
    /\ query_cache # <<>>

\* C17: when the reranking model fails with the reranker enabled, hybrid_search ends in
\* an error, not in the un-reranked fused list, and writes no cache entry.
C17_RerankerFailure ==
    [][(Called /\ failing = "reranker" /\ use_reranker /\ ~last'.hit
          /\ combined_results' # <<>>) =>
          /\ last'.type = "raise"
          /\ last'.raised = "RerankerFailure"
          /\ last'.returned = <<>>
          /\ query_cache' = query_cache
          /\ LastKey' \notin DOMAIN query_cache']_vars

\* the reranker failed on a fused list that was ready to be returned
C17_Witness ==
    /\ failing = "reranker"
    /\ use_reranker
    /\ last.op = "hybrid_search"
    /\ last.raised = "RerankerFailure"
    /\ Len(combined_results) >= 2
    /\ LastKey \notin DOMAIN query_cache

ValidParameters == RLe(Zero, last.alpha) /\ RLe(last.alpha, One) /\ last.top_k >= 1

\* C18: hybrid_search with alpha outside [0,1] or top_k below 1 ends in an
\* invalid-parameter error of its own, returns no list and writes no cache entry.
C18_InvalidParameters ==
    (last.op = "hybrid_search" /\ ~ValidParameters) =>
        /\ last.type = "raise"
        /\ last.raised \notin {"", "ValueError", "EmbedderFailure", "StoreFailure",
                               "RerankerFailure"}
        /\ last.returned = <<>>
        /\ LastKey \notin DOMAIN query_cache

----------------------------------------------------------------------------
(* Properties of the lexical index *)

\* the index over the whole corpus
FullIndex == setup_bm25_index(get_all_chunks)

\* C19: the index is absent after construction, the first lexical query builds it from
\* the full corpus, and no later call rebuilds or replaces it: the corpus is read once.
C19_BuiltOnce ==
    /\ [](/\ reads = 0 => (~bm25.built /\ bm25_chunks = None)
          /\ last.op = "none" => reads = 0
          /\ last.op # "none" =>
                /\ bm25 = FullIndex.bm25
                /\ bm25_chunks = FullIndex.chunks
                /\ reads = 1)
    /\ [][bm25.built =>
             (bm25' = bm25 /\ bm25_chunks' = bm25_chunks /\ reads' = reads)]_vars

\* the index is still the first one after as many fresh searches as the engine takes
C19_Witness ==
    /\ bm25.built
    /\ reads = 1
    /\ Cardinality(DOMAIN query_cache) = MaxCache
    /\ last.op = "retrieve_context"
    /\ ~last.hit

\* C20: when several threads make their first lexical query at once, exactly one of them
\* builds the index, and none observes the index without its chunk list.
C20_BuildOnce ==
    /\ Cardinality({t \in DOMAIN threads : threads[t].built}) <= 1
    /\ reads <= 1
    /\ \A t \in DOMAIN threads : threads[t].saw # "partial"
    /\ (\A t \in DOMAIN threads : threads[t].pc = "done") =>
          Cardinality({t \in DOMAIN threads : threads[t].built}) = 1

----------------------------------------------------------------------------
(* Concurrent queries *)

\* the ranked result of a tuple, computed alone on the engine
RankedResult(tuple) == compute(tuple[1], tuple[2], tuple[3], tuple[4]).results

\* C21: when two threads run hybrid_search on one shared engine, under every
\* interleaving each call returns the ranked result for its own tuple and every
\* cache entry holds a result computed for its own key
C21_RaceFree ==
    /\ \A t \in Racers :
          threads[t].pc = "returned" =>
             /\ threads[t].raised = ""
             /\ threads[t].returned = RankedResult(threads[t].tuple)
    /\ \A key \in DOMAIN query_cache :
          \E tuple \in RaceTuples :
             /\ key = cache_key(tuple[1], tuple[2], tuple[3], tuple[4])
             /\ query_cache[key] = RankedResult(tuple)


----------------------------------------------------------------------------
(* Reranking *)

\* a fresh hybrid_search that went through the rerank stage
Reranked == last.op = "hybrid_search" /\ ~last.hit /\ last.raised = "" /\ Reranks

\* the fused list cut to top_k, as handed to the reranker
FusedTopK == deduplicate_results(combined_results, last.top_k)

WithoutRerankScore(result) ==
    [field \in DOMAIN result \ {"rerank_score"} |-> result[field]]

\* C22: with the reranker enabled, the output is a permutation of the fused top_k
\* list (same chunks, none added or dropped) in non-increasing order of rerank
\* score alone; an empty list is returned unchanged and the model is not called
C22_RerankPermutes ==
    Reranked =>
       LET fused == FusedTopK
           output == last.returned
       IN /\ Len(output) = Len(fused)
          /\ \E p \in [1..Len(fused) -> 1..Len(fused)] :
                /\ \A i, j \in 1..Len(fused) : p[i] = p[j] => i = j
                /\ \A i \in 1..Len(fused) : WithoutRerankScore(output[i]) = fused[p[i]]
          /\ \A i \in 1..Len(output) : output[i]["rerank_score"] = RerankScore(output[i])
          /\ \A i, j \in 1..Len(output) :
                i < j => RLe(output[j]["rerank_score"], output[i]["rerank_score"])
          /\ Len(fused) = 0 =>
                /\ output = fused
                /\ \A i \in 1..Len(last.invoked) : last.invoked[i] # "reranker"

\* the reranker reverses a fused pair, and an empty list passes through
C22_Witness ==
    /\ Reranked
    /\ Len(FusedTopK) = 2
    /\ last.returned[1]["id"] = FusedTopK[2]["id"]
    /\ last.returned[2]["id"] = FusedTopK[1]["id"]
    /\ \E key \in DOMAIN query_cache : query_cache[key] = <<>>

----------------------------------------------------------------------------
(* Context packing *)

Packed == last.op = "retrieve_context" /\ last.raised = ""

\* the formatted blocks of the ranked candidates, in ranked order
Blocks == [i \in 1..Len(last.returned) |-> FormatChunk(last.returned[i])]

\* the token cost of the first n blocks, each counted alone
RECURSIVE Cost(_)
Cost(n) == IF n = 0 THEN 0 ELSE Cost(n - 1) + count_tokens(Blocks[n])

\* C23: the packed blocks are the longest prefix of the ranked candidates whose
\* cumulative token cost is at most max_tokens, in ranked order; after the first
\* candidate that does not fit, no later candidate is packed
C23_PrefixGreedy ==
    Packed =>
       \E n \in 0..Len(Blocks) :
          /\ Cost(n) <= last.max_tokens
          /\ n < Len(Blocks) => Cost(n + 1) > last.max_tokens
          /\ last.context = Join(SubSeq(Blocks, 1, n))

\* a block does not fit, and a later, smaller block that would fit is left out
C23_Witness ==
    /\ Packed
    /\ \E n \in 1..Len(Blocks) :
          /\ last.context = Join(SubSeq(Blocks, 1, n))
          /\ \E j \in (n + 2)..Len(Blocks) :
                Cost(n) + count_tokens(Blocks[j]) <= last.max_tokens

----------------------------------------------------------------------------
(* Lexical search *)

\* a hybrid_search that ran its stages
Fresh == last.op = "hybrid_search" /\ ~last.hit /\ last.raised = ""

\* the BM25 score of chunk i for the last query; 0 outside the document filter
LexScore(i) ==
    IF Truthy(last.bill_number)
       /\ Get(collection[i]["metadata"], "bill_number", "") # last.bill_number[1]
    THEN Zero
    ELSE Rat(DocScore(LowerSplit(collection[i]["text"]), tokenize_query(last.query)), 1)

Positive == {i \in 1..Len(collection) : RLt(Zero, LexScore(i))}

\* C24: a lexical query for k chunks returns exactly the chunks with BM25 score > 0
\* among the k highest-scoring ones, in non-increasing score order; chunks with
\* score 0, every chunk outside the document filter included, are never returned,
\* even when fewer than k chunks match
C24_LexicalTopK ==
    Fresh =>
       LET k == last.top_k * 2
           out == bm25_results
           returned == {IndexOf(collection, out[n]["id"]) : n \in 1..Len(out)}
       IN /\ \A n \in 1..Len(out) :
                /\ out[n]["bm25_score"] = LexScore(IndexOf(collection, out[n]["id"]))
                /\ RLt(Zero, out[n]["bm25_score"])
          /\ \A n, m \in 1..Len(out) : out[n]["id"] = out[m]["id"] => n = m
          /\ \A n, m \in 1..Len(out) :
                n < m => RLe(out[m]["bm25_score"], out[n]["bm25_score"])
          /\ Len(out) = (IF Cardinality(Positive) < k THEN Cardinality(Positive) ELSE k)
          /\ \A i \in Positive \ returned, j \in returned : RLe(LexScore(i), LexScore(j))

\* fewer than k chunks match under a filter, and a chunk of another bill that
\* holds the query terms is left out
C24_Witness ==
    /\ Fresh
    /\ Truthy(last.bill_number)
    /\ Len(bm25_results) >= 1
    /\ Len(bm25_results) < last.top_k * 2
    /\ \E i \in 1..Len(collection) :
          /\ LexScore(i) = Zero
          /\ DocScore(LowerSplit(collection[i]["text"]), tokenize_query(last.query)) > 0

----------------------------------------------------------------------------
(* Stage order *)

Uncached == last.op = "hybrid_search" /\ ~last.hit

\* the stage a dependency belongs to
StageOf(dependency) ==
    CASE dependency \in {"embedder", "store"} -> "dense"
      [] dependency = "bm25" -> "lexical"
      [] dependency = "fuse" -> "fusion"
      [] dependency = "reranker" -> "rerank"

StagePosition(order, stage) == CHOOSE n \in 1..Len(order) : order[n] = stage

\* the stages the last call entered follow one another as in order
RunsInOrder(order) ==
    \A i, j \in 1..Len(last.invoked) :
       i < j => StagePosition(order, StageOf(last.invoked[i]))
                   <= StagePosition(order, StageOf(last.invoked[j]))

\* the last call went through every stage it had to
RanEveryStage ==
    LET entered == {StageOf(last.invoked[i]) : i \in 1..Len(last.invoked)}
    IN /\ {"dense", "lexical", "fusion"} \subseteq entered
       /\ (Reranks /\ Len(last.returned) > 0) => "rerank" \in entered

WrittenAfterLastStage ==
    LastKey \in DOMAIN query_cache => last.raised = "" /\ RanEveryStage

\* C25, as stated: in every uncached hybrid_search the stages run in the order
\* lexical search, dense search, fusion, optional rerank, and the cache is written
\* only after the last stage has completed
C25_LexicalThenDense ==
    Uncached =>
       /\ RunsInOrder(<<"lexical", "dense", "fusion", "rerank">>)
       /\ WrittenAfterLastStage

\* C25, amended: in every uncached hybrid_search the stages run in the order
\* dense search, lexical search, fusion, optional rerank, and the cache is written
\* only after the last stage has completed
C25_DenseThenLexical ==
    Uncached =>
       /\ RunsInOrder(<<"dense", "lexical", "fusion", "rerank">>)
       /\ WrittenAfterLastStage

\* a call that went through all four stages and was cached
C25_Witness ==
    /\ Uncached
    /\ last.invoked = <<"embedder", "store", "bm25", "fuse", "reranker">>
    /\ LastKey \in DOMAIN query_cache

----------------------------------------------------------------------------
(* Result assembly *)

\* where fusion inserted a candidate: vector results first, then BM25-only results
Inserted(id) ==
    IF Holds(vector_results, id) THEN IndexOf(vector_results, id)
    ELSE Len(vector_results) + IndexOf(bm25_results, id)

\* the one order assembly may produce: final_score, then insertion
Precedes(a, b) ==
    LET score_a == FinalIn(combined_results, a)
        score_b == FinalIn(combined_results, b)
    IN \/ RLt(score_b, score_a)
       \/ /\ ~RLt(score_a, score_b)
          /\ Inserted(a) < Inserted(b)

\* C26: result assembly is determined by its inputs: the returned list is the first
\* top_k candidates in order of final_score, equal-score candidates in insertion
\* order (vector results first, then BM25-only results)
C26_Deterministic ==
    Fused =>
       /\ Len(last.returned) =
             (IF Len(combined_results) < last.top_k THEN Len(combined_results)
              ELSE last.top_k)
       /\ \A i, j \in 1..Len(last.returned) :
             i < j => Precedes(last.returned[i]["id"], last.returned[j]["id"])
       /\ \A i \in 1..Len(last.returned) :
             /\ last.returned[i] = combined_results[IndexOf(combined_results,
                                                             last.returned[i]["id"])]
             /\ \A id \in Ids(combined_results) \ Ids(last.returned) :
                   Precedes(last.returned[i]["id"], id)

\* a vector candidate and a BM25-only candidate tie and come back in insertion order
C26_Witness ==
    /\ Fused
    /\ \E i, j \in 1..Len(last.returned) :
          /\ i < j
          /\ last.returned[i]["final_score"] = last.returned[j]["final_score"]
          /\ Holds(vector_results, last.returned[i]["id"])
          /\ ~Holds(vector_results, last.returned[j]["id"])

----------------------------------------------------------------------------
(* What a query leaves alone *)

\* C27: once the lexical index is built, no hybrid_search or retrieve_context call,
\* reranked or not, changes the index, the order or content of its chunk list, the
\* dense store or the engine's configuration; of the engine's state only the query
\* cache may change
C27_IndexFrame ==
    [][bm25.built =>
          /\ bm25' = bm25
          /\ bm25_chunks' = bm25_chunks
          /\ collection' = collection
          /\ distances' = distances
          /\ use_reranker' = use_reranker
          /\ rerank_model' = rerank_model]_vars

\* a reranked retrieve_context call added a cache entry on an engine whose index
\* an earlier call had built
C27_Witness ==
    /\ bm25.built
    /\ bm25_chunks = get_all_chunks
    /\ use_reranker
    /\ last.op = "retrieve_context"
    /\ ~last.hit
    /\ Cardinality(DOMAIN query_cache) >= 2

----------------------------------------------------------------------------
(* Malformed candidates *)

WellFormed(result) == result["text"] # NoText

\* the chunks of the store a retrieve_context call may draw on
Candidates ==
    SelectSeq(collection,
              LAMBDA chunk : Get(chunk["metadata"], "bill_number", "") = last.bill_number[1])

\* C28: retrieve_context does not abort on a candidate with no text: it skips it
\* and packs the remaining ranked candidates, and a candidate with no section
\* label is formatted under the label "Unknown"
C28_MalformedSkipped ==
    last.op = "retrieve_context" =>
       /\ last.type = "str"
       /\ \A i \in 1..Len(last.returned) : WellFormed(last.returned[i])
       /\ last.context = Join(Pack(last.returned, last.max_tokens, <<>>, 0))
       /\ (\E i \in 1..Len(Candidates) : WellFormed(Candidates[i]))
             => Len(last.returned) > 0
       /\ \A i \in 1..Len(last.returned) :
             "section" \notin DOMAIN last.returned[i]["metadata"]
                => FormatChunk(last.returned[i])[1] = "Section Unknown:"

----------------------------------------------------------------------------
(* Full-document cutoff *)

\* the complete concatenation of the bill the last call asked for
FullContext == JoinBlank(ContextParts(SortedByStart(StoreGet(last.bill_number[1]))))

\* C29: for every max_tokens value get_full_bill_context returns the complete
\* concatenation unchanged when it has at most max_tokens tokens, and otherwise the
\* text decoded from exactly its first max_tokens tokens, so that the result never
\* counts more than max_tokens tokens
C29_LastResortCutoff ==
    last.op = "get_full_bill_context" =>
       /\ count_tokens(FullContext) <= last.max_tokens => last.context = FullContext
       /\ count_tokens(FullContext) > last.max_tokens
             => last.context = DecodeFirst(FullContext, 0, last.max_tokens)
       /\ count_tokens(last.context) <= last.max_tokens

----------------------------------------------------------------------------
(* Cache entries *)

\* C30: once written, a cache entry never changes: no later hybrid_search,
\* retrieve_context, get_full_bill_context or find_specific_provisions call, and
\* nothing a caller does to a result list it was handed, alters what a later
\* cache hit for that key returns
C30_EntriesNeverChange ==
    [][\A key \in DOMAIN query_cache :
          /\ key \in DOMAIN query_cache'
          /\ query_cache'[key] = query_cache[key]
          /\ (last'.op = "hybrid_search" /\ last'.hit /\ LastKey' = key)
                => last'.returned = query_cache[key]]_vars

====
